---- MODULE Spec2Model ----
(***************************************************************************)
(* Model of the cli-tool command line program (src/src/main.rs): argument  *)
(* validation (validate_args) and the transaction pipeline (main and       *)
(* execute_transaction).                                                   *)
(*                                                                         *)
(* Representation.  A Rust String is a sequence of characters, each        *)
(* character a one-element TLA+ string; U0663 stands for the character     *)
(* U+0663 ARABIC-INDIC DIGIT THREE, a decimal digit that is not ASCII.     *)
(* A u32 is the sequence of its decimal digit values, most significant     *)
(* first, without leading zeros (zero is <<0>>): TLC's integers are too    *)
(* narrow for 2^32 - 1.  An anyhow error is the sequence of the context    *)
(* messages attached in main.rs, outermost first; the root cause raised    *)
(* inside a library is not part of it.                                     *)
(***************************************************************************)
EXTENDS Integers, Sequences, FiniteSets, TLC

VARIABLES pc, args, walletKey, transaction, calls, replies, sent, balances,
          execResult, report, result, log

vars == <<pc, args, walletKey, transaction, calls, replies, sent, balances,
          execResult, report, result, log>>

----------------------------------------------------------------------------
(* Bounds *)

MaxLen == 5
MaxArgLen == 4
MaxAddrLen == 1

----------------------------------------------------------------------------
(* Characters and character classes *)

U0663 == "U+0663"

AsciiDigits == {"0", "1", "2", "3", "4", "5", "6", "7", "8", "9"}

UnicodeDigits == AsciiDigits \cup {U0663}

Letters ==
  {"a","b","c","d","e","f","g","h","i","j","k","l","m",
   "n","o","p","q","r","s","t","u","v","w","x","y","z",
   "A","B","C","D","E","F","G","H","I","J","K","L","M",
   "N","O","P","Q","R","S","T","U","V","W","X","Y","Z"}

DigitVal(c) ==
  CASE c = "0" -> 0 [] c = "1" -> 1 [] c = "2" -> 2 [] c = "3" -> 3
    [] c = "4" -> 4 [] c = "5" -> 5 [] c = "6" -> 6 [] c = "7" -> 7
    [] c = "8" -> 8 [] c = "9" -> 9

DigitChar(d) ==
  CASE d = 0 -> "0" [] d = 1 -> "1" [] d = 2 -> "2" [] d = 3 -> "3"
    [] d = 4 -> "4" [] d = 5 -> "5" [] d = 6 -> "6" [] d = 7 -> "7"
    [] d = 8 -> "8" [] d = 9 -> "9"

AllIn(s, lo, hi, class) == \A i \in lo..hi : s[i] \in class

----------------------------------------------------------------------------
(* Error and log messages of main.rs *)

ErrUsage == "Invalid input, example format: 100uosmo osmjiewjfhiewf23uiwesnec"
ErrLogDir == "Unable to create the logs directory"
ErrLogFile == "Failed to open log file"
ErrLogApply == "Error applying log configuration"
ErrFormat == "Invalid AMOUNTTOKEN format. Expected format: 'AMOUNTTOKEN' (ex. '100btc')"
ErrAmount == "Invalid amount. The specified amount must be greater than 0"
ErrToken == "Invalid token format. Only alphanumeric values and/or '-' and '_' special characters are allowed"
ErrAddress == "Invalid address format. Only alphanumeric values and/or '-' and '_' special characters are allowed"
ErrConnect == "Error connecting to Cosmos"
ErrConvert == "Failed to convert {} to Address"
ErrBalances == "Failed to retrieve all balances for the Cosmos address"
ErrNoWallet == "Can not find the 'wallet.key' file in the path: 'wallet/wallet.key'"
ErrReadWallet == "Error reading the wallet.key file"
ErrMnemonic == "Failed to retrieve the mnemonic phrase"
ErrHrp == "Error obtaining AddressHrp"
ErrWallet == "Error identifying the wallet"
ErrSend == "Error executing the transaction at address {}"
ErrExecution == "Error encountered during transaction execution"
ErrFinalized == "Transaction finalized with errors {}"

----------------------------------------------------------------------------
(* u32 *)

U32Max == <<4, 2, 9, 4, 9, 6, 7, 2, 9, 5>>

RECURSIVE StripZeros(_)
StripZeros(d) ==
  IF Len(d) > 1 /\ d[1] = 0 THEN StripZeros(Tail(d)) ELSE d

RECURSIVE LexLeq(_, _)
LexLeq(a, b) ==
  IF a = <<>> THEN TRUE
  ELSE IF a[1] # b[1] THEN a[1] < b[1]
  ELSE LexLeq(Tail(a), Tail(b))

FitsU32(d) ==
  \/ Len(d) < Len(U32Max)
  \/ Len(d) = Len(U32Max) /\ LexLeq(d, U32Max)

ParseU32(s) ==
  IF s = <<>> \/ ~AllIn(s, 1, Len(s), AsciiDigits)
  THEN [ok |-> FALSE, val |-> <<0>>]
  ELSE LET d == StripZeros([i \in 1..Len(s) |-> DigitVal(s[i])])
       IN IF FitsU32(d) THEN [ok |-> TRUE, val |-> d]
          ELSE [ok |-> FALSE, val |-> <<0>>]

to_string(d) == [i \in 1..Len(d) |-> DigitChar(d[i])]

----------------------------------------------------------------------------
(* validate_args *)

(* The ways s splits as digits (1..i), letters (i+1..j), dashes (j+1..k)   *)
(* and digits (k+1..Len(s)); maxDash bounds the number of dashes.          *)
SplitsUpTo(s, maxDash) ==
  LET n == Len(s)
      I == {i \in 1..n : AllIn(s, 1, i, UnicodeDigits)}
      J(i) == {j \in (i + 1)..n : AllIn(s, i + 1, j, Letters)}
      K(j) == {k \in j..n : /\ k - j <= maxDash
                            /\ AllIn(s, j + 1, k, {"-"})
                            /\ AllIn(s, k + 1, n, UnicodeDigits)}
  IN UNION {UNION {{<<i, j, k>> : k \in K(j)} : j \in J(i)} : i \in I}

(* Variant: at most one '-' between the letters and the trailing digits *)
AmountTokenSplits_SingleDash(s) == SplitsUpTo(s, 1)

AmountTokenSplits(s) == SplitsUpTo(s, Len(s))

amount_token_regex(s) ==
  IF AmountTokenSplits(s) = {}
  THEN [matched |-> FALSE, g1 |-> <<>>, g2 |-> <<>>]
  ELSE LET p == CHOOSE q \in AmountTokenSplits(s) : TRUE
       IN [matched |-> TRUE,
           g1 |-> SubSeq(s, 1, p[1]),
           g2 |-> SubSeq(s, p[1] + 1, Len(s))]

(* Variant: '*' instead of '+', the empty string matches *)
valid_str_AllowEmpty(s) ==
  AllIn(s, 1, Len(s), Letters \cup AsciiDigits \cup {"-", "_"})

valid_str(s) ==
  Len(s) >= 1 /\ AllIn(s, 1, Len(s), Letters \cup AsciiDigits \cup {"-", "_"})

VErr(msg) == [ok |-> FALSE, err |-> <<msg>>, amount |-> <<0>>, token |-> <<>>, addr |-> <<>>]

validate_args(a) ==
  LET captures == amount_token_regex(a[1]) IN
  IF ~captures.matched THEN VErr(ErrFormat)
  ELSE LET amount == ParseU32(captures.g1)
           token == captures.g2
       IN IF ~amount.ok THEN VErr(ErrAmount)
          ELSE IF ~valid_str(token) THEN VErr(ErrToken)
          ELSE IF ~valid_str(a[2]) THEN VErr(ErrAddress)
          ELSE [ok |-> TRUE, err |-> <<>>, amount |-> amount.val,
                token |-> token, addr |-> a[2]]

----------------------------------------------------------------------------
(* Values of the pipeline *)

Transaction_new == [amount |-> <<0>>, token |-> <<>>, addr |-> <<>>]

NoExec == [kind |-> "none", err |-> <<>>, code |-> 0, height |-> 0, txhash |-> ""]

ExecErr(msg) == [kind |-> "err", err |-> <<msg>>, code |-> 0, height |-> 0, txhash |-> ""]

ExecOk(r) == [kind |-> "ok", err |-> <<>>, code |-> r.code, height |-> r.height, txhash |-> r.txhash]

NoReport == [emitted |-> FALSE, code |-> 0, height |-> 0, txhash |-> ""]

Running == [kind |-> "running", err |-> <<>>]

MainOk == [kind |-> "ok", err |-> <<>>]

MainErr(e) == [kind |-> "err", err |-> e]

Info(msg) == <<"INFO", msg>>

Error(msg) == <<"ERROR", msg>>

(* Environment: results the external collaborators can produce *)

WalletKeys == {"absent", "unreadable", "malformed", "valid"}

LoggingErrors == {ErrLogDir, ErrLogFile, ErrLogApply}

DeriveErrors == {ErrHrp, ErrWallet}

Receipts == {[code |-> c, height |-> 100, txhash |-> "TXHASH"] : c \in {0, 5}}

BalanceChoices(addr) ==
  { <<>>,
    <<[denom |-> <<"u", "o", "s", "m", "o">>, amount |-> <<"7">>]>>,
    <<[denom |-> <<"f", "/">> \o addr \o <<"/", "x">>, amount |-> <<"9">>],
      [denom |-> <<"f", "/", "x">>, amount |-> <<"3">>]>> }

(* str::split('/') *)
RECURSIVE SplitFrom(_, _, _)
SplitFrom(s, i, cur) ==
  IF i > Len(s) THEN <<cur>>
  ELSE IF s[i] = "/" THEN <<cur>> \o SplitFrom(s, i + 1, <<>>)
  ELSE SplitFrom(s, i + 1, Append(cur, s[i]))

Split(s) == SplitFrom(s, 1, <<>>)

(* balances.iter().for_each(...): the log lines it writes.  Rust indexes   *)
(* from 0, so denom_slice[1] is the second part.                           *)
RECURSIVE BalanceLog(_, _)
BalanceLog(bs, addr) ==
  IF bs = <<>> THEN <<>>
  ELSE LET denom_slice == Split(bs[1].denom)
           line == IF Len(denom_slice) > 2 /\ denom_slice[2] = addr
                   THEN <<<<"INFO", "Balance: {}", bs[1].amount>>>>
                   ELSE <<>>
       IN line \o BalanceLog(Tail(bs), addr)

----------------------------------------------------------------------------
(* Inputs *)

Strs(A, n) == UNION {[1..k -> A] : k \in 0..n}

ArgChars == {"0", "5", "a", "-", "!", U0663}

AddrChars == {"_", "!"}

LongDigits == <<"4", "2", "9", "4", "9", "6", "7", "2", "9">>

Addrs == Strs(AddrChars, MaxAddrLen)

PipelineArgs ==
  {<<>>, <<<<"5", "a">>>>, <<<<"5", "a">>, <<"a">>, <<"a">>>>}
    \cup (Strs(ArgChars, MaxArgLen) \X Addrs)

ValidateArgs ==
  (Strs(ArgChars, MaxLen) \cup {LongDigits \o s : s \in Strs(ArgChars, MaxLen)})
    \X Addrs

----------------------------------------------------------------------------
(* main *)

Init ==
  /\ pc = "start"
  /\ args \in PipelineArgs
  /\ walletKey \in WalletKeys
  /\ transaction = Transaction_new
  /\ calls = <<>>
  /\ replies = <<>>
  /\ sent = <<>>
  /\ balances = <<>>
  /\ execResult = NoExec
  /\ report = NoReport
  /\ result = Running
  /\ log = <<>>

SetupLogging ==
  /\ pc = "start"
  /\ \/ /\ calls' = Append(calls, "setup_logging")
        /\ replies' = Append(replies, "ok")
        /\ pc' = "args"
        /\ log' = Append(log, Info("Rust Cli Tool has started"))
        /\ UNCHANGED result
     \/ /\ calls' = Append(calls, "setup_logging")
        /\ replies' = Append(replies, "err")
        /\ \E e \in LoggingErrors : result' = MainErr(<<e>>)
        /\ pc' = "done"
        /\ UNCHANGED log
  /\ UNCHANGED <<args, walletKey, transaction, sent, balances, execResult, report>>

(* Variant: only too few arguments are a usage error *)
CheckArgs_AtLeastTwo ==
  /\ pc = "args"
  /\ IF Len(args) < 2
     THEN /\ log' = Append(log, Error(ErrUsage))
          /\ result' = MainErr(<<ErrUsage>>)
          /\ pc' = "done"
          /\ UNCHANGED transaction
     ELSE /\ transaction' = Transaction_new
          /\ pc' = "validate"
          /\ UNCHANGED <<log, result>>
  /\ UNCHANGED <<args, walletKey, calls, replies, sent, balances, execResult, report>>

CheckArgs ==
  /\ pc = "args"
  /\ IF Len(args) # 2
     THEN /\ log' = Append(log, Error(ErrUsage))
          /\ result' = MainErr(<<ErrUsage>>)
          /\ pc' = "done"
          /\ UNCHANGED transaction
     ELSE /\ transaction' = Transaction_new
          /\ pc' = "validate"
          /\ UNCHANGED <<log, result>>
  /\ UNCHANGED <<args, walletKey, calls, replies, sent, balances, execResult, report>>

Validate ==
  /\ pc = "validate"
  /\ calls' = Append(calls, "validate_args")
  /\ LET v == validate_args(args) IN
     IF v.ok
     THEN /\ replies' = Append(replies, "ok")
          /\ transaction' = [amount |-> v.amount, token |-> v.token, addr |-> v.addr]
          /\ log' = log \o <<Info("Parameters details:"),
                             <<"INFO", "Amount: {} Token: {} Addr: {}",
                               to_string(v.amount), v.token, v.addr>>,
                             Info("Transaction parameters have been set")>>
          /\ pc' = "connect"
          /\ UNCHANGED result
     ELSE /\ replies' = Append(replies, "err")
          /\ log' = Append(log, Error(v.err[1]))
          /\ result' = MainErr(v.err)
          /\ pc' = "done"
          /\ UNCHANGED transaction
  /\ UNCHANGED <<args, walletKey, sent, balances, execResult, report>>

----------------------------------------------------------------------------
(* execute_transaction, one action per call it makes.  calls records the   *)
(* calls made and replies what each returned; a failing step returns its   *)
(* error to main (pc = "match").                                           *)

Proceed(f, next) ==
  /\ calls' = Append(calls, f)
  /\ replies' = Append(replies, "ok")
  /\ pc' = next
  /\ UNCHANGED execResult

Fail(f, msg) ==
  /\ calls' = Append(calls, f)
  /\ replies' = Append(replies, "err")
  /\ execResult' = ExecErr(msg)
  /\ pc' = "match"

(* Variant: a failed connection is attempted again *)
Connect_Retry ==
  /\ pc = "connect"
  /\ \/ /\ log' = log \o <<Info("Connecting to Cosmos..."), Info("Connection successful.")>>
        /\ Proceed("connect", "address")
     \/ /\ log' = Append(log, Info("Connecting to Cosmos..."))
        /\ IF Len(calls) < 3
           THEN /\ calls' = Append(calls, "connect")
                /\ replies' = Append(replies, "err")
                /\ UNCHANGED <<pc, execResult>>
           ELSE Fail("connect", ErrConnect)
  /\ UNCHANGED <<args, walletKey, transaction, sent, balances, report, result>>

Connect ==
  /\ pc = "connect"
  /\ \/ /\ log' = log \o <<Info("Connecting to Cosmos..."), Info("Connection successful.")>>
        /\ Proceed("connect", "address")
     \/ /\ log' = Append(log, Info("Connecting to Cosmos..."))
        /\ Fail("connect", ErrConnect)
  /\ UNCHANGED <<args, walletKey, transaction, sent, balances, report, result>>

ConvertAddress ==
  /\ pc = "address"
  /\ \/ /\ log' = Append(log, <<"INFO", "Getting balance for wallet {}", transaction.addr>>)
        /\ Proceed("Address::from_str", "balances")
     \/ /\ Fail("Address::from_str", ErrConvert)
        /\ UNCHANGED log
  /\ UNCHANGED <<args, walletKey, transaction, sent, balances, report, result>>

(* Variant: a failed balance query is logged and the transfer goes on *)
AllBalances_NonFatal ==
  /\ pc = "balances"
  /\ \/ \E bs \in BalanceChoices(transaction.addr) :
          /\ balances' = bs
          /\ log' = log \o BalanceLog(bs, transaction.addr)
                        \o <<Info("Executing transaction....")>>
          /\ Proceed("all_balances", "metadata")
     \/ /\ log' = log \o <<Error(ErrBalances), Info("Executing transaction....")>>
        /\ calls' = Append(calls, "all_balances")
        /\ replies' = Append(replies, "err")
        /\ pc' = "metadata"
        /\ UNCHANGED <<balances, execResult>>
  /\ UNCHANGED <<args, walletKey, transaction, sent, report, result>>

AllBalances ==
  /\ pc = "balances"
  /\ \/ \E bs \in BalanceChoices(transaction.addr) :
          /\ balances' = bs
          /\ log' = log \o BalanceLog(bs, transaction.addr)
                        \o <<Info("Executing transaction....")>>
          /\ Proceed("all_balances", "metadata")
     \/ /\ Fail("all_balances", ErrBalances)
        /\ UNCHANGED <<log, balances>>
  /\ UNCHANGED <<args, walletKey, transaction, sent, report, result>>

(* Variant: the existence check is skipped *)
CheckWallet_FailOpen ==
  /\ pc = "metadata"
  /\ calls' = Append(calls, "metadata")
  /\ replies' = Append(replies, IF walletKey = "absent" THEN "err" ELSE "ok")
  /\ pc' = "read"
  /\ UNCHANGED <<args, walletKey, transaction, sent, balances, report, result, log, execResult>>

CheckWallet ==
  /\ pc = "metadata"
  /\ IF walletKey = "absent"
     THEN /\ log' = log \o <<Info("The path 'wallet/wallet.key' does not exist"),
                             Info("Please follow the steps outlined in the readme.md file")>>
          /\ Fail("metadata", ErrNoWallet)
     ELSE /\ Proceed("metadata", "read")
          /\ UNCHANGED log
  /\ UNCHANGED <<args, walletKey, transaction, sent, balances, report, result>>

ReadWallet ==
  /\ pc = "read"
  /\ IF walletKey \in {"absent", "unreadable"}
     THEN Fail("read_to_string", ErrReadWallet)
     ELSE Proceed("read_to_string", "mnemonic")
  /\ UNCHANGED <<args, walletKey, transaction, sent, balances, report, result, log>>

(* Variant: the result of SeedPhrase::from_str is not checked *)
ParseMnemonic_FailOpen ==
  /\ pc = "mnemonic"
  /\ calls' = Append(calls, "SeedPhrase::from_str")
  /\ replies' = Append(replies, IF walletKey = "malformed" THEN "err" ELSE "ok")
  /\ pc' = "wallet"
  /\ UNCHANGED <<args, walletKey, transaction, sent, balances, report, result, log, execResult>>

ParseMnemonic ==
  /\ pc = "mnemonic"
  /\ IF walletKey = "malformed"
     THEN Fail("SeedPhrase::from_str", ErrMnemonic)
     ELSE Proceed("SeedPhrase::from_str", "wallet")
  /\ UNCHANGED <<args, walletKey, transaction, sent, balances, report, result, log>>

DeriveWallet ==
  /\ pc = "wallet"
  /\ \/ /\ log' = log \o <<Info("Sender Wallet address: {}"),
                           <<"INFO", "Destination Wallet address: {}", transaction.addr>>>>
        /\ Proceed("with_hrp", "send")
     \/ /\ \E e \in DeriveErrors : Fail("with_hrp", e)
        /\ UNCHANGED log
  /\ UNCHANGED <<args, walletKey, transaction, sent, balances, report, result>>

Coin(t) == [denom |-> t.token, amount |-> to_string(t.amount)]

SendCoins ==
  /\ pc = "send"
  /\ sent' = Append(sent, [address |-> transaction.addr, amount |-> <<Coin(transaction)>>])
  /\ \/ /\ calls' = Append(calls, "send_coins")
        /\ replies' = Append(replies, "ok")
        /\ \E r \in Receipts : execResult' = ExecOk(r)
        /\ pc' = "match"
     \/ Fail("send_coins", ErrSend)
  /\ UNCHANGED <<args, walletKey, transaction, balances, report, result, log>>

(* Variant: any receipt counts as success *)
MainMatch_IgnoreCode ==
  /\ pc = "match"
  /\ IF execResult.kind = "ok"
     THEN LET transaction_details ==
                [emitted |-> TRUE, code |-> execResult.code,
                 height |-> execResult.height, txhash |-> execResult.txhash]
          IN /\ report' = transaction_details
             /\ log' = Append(log, <<"INFO", "Transaction completed successfully: {}",
                                     transaction_details>>)
             /\ result' = MainOk
     ELSE /\ log' = Append(log, <<"ERROR", "Failed to execute transaction: {}", execResult.err[1]>>)
          /\ result' = MainErr(<<ErrExecution>> \o execResult.err)
          /\ UNCHANGED report
  /\ pc' = "done"
  /\ UNCHANGED <<args, walletKey, transaction, calls, replies, sent, balances, execResult>>

(* Variant: the report is built only for a receipt with code 0 *)
MainMatch_ReportOnSuccessOnly ==
  /\ pc = "match"
  /\ IF execResult.kind = "ok"
     THEN IF execResult.code = 0
          THEN LET transaction_details ==
                     [emitted |-> TRUE, code |-> execResult.code,
                      height |-> execResult.height, txhash |-> execResult.txhash]
               IN /\ report' = transaction_details
                  /\ log' = Append(log, <<"INFO", "Transaction completed successfully: {}",
                                          transaction_details>>)
                  /\ result' = MainOk
          ELSE /\ log' = Append(log, Error(ErrFinalized))
               /\ result' = MainErr(<<ErrFinalized>>)
               /\ UNCHANGED report
     ELSE /\ log' = Append(log, <<"ERROR", "Failed to execute transaction: {}", execResult.err[1]>>)
          /\ result' = MainErr(<<ErrExecution>> \o execResult.err)
          /\ UNCHANGED report
  /\ pc' = "done"
  /\ UNCHANGED <<args, walletKey, transaction, calls, replies, sent, balances, execResult>>

(* main, lines 121-145: the match on execute_transaction's result *)
MainMatch ==
  /\ pc = "match"
  /\ IF execResult.kind = "ok"
     THEN LET transaction_details ==
                [emitted |-> TRUE, code |-> execResult.code,
                 height |-> execResult.height, txhash |-> execResult.txhash]
          IN /\ report' = transaction_details
             /\ IF execResult.code = 0
                THEN /\ log' = Append(log, <<"INFO", "Transaction completed successfully: {}",
                                             transaction_details>>)
                     /\ result' = MainOk
                ELSE /\ log' = Append(log, <<"ERROR", "Transaction finalized with errors: {}",
                                             transaction_details>>)
                     /\ result' = MainErr(<<ErrFinalized>>)
     ELSE /\ log' = Append(log, <<"ERROR", "Failed to execute transaction: {}", execResult.err[1]>>)
          /\ result' = MainErr(<<ErrExecution>> \o execResult.err)
          /\ UNCHANGED report
  /\ pc' = "done"
  /\ UNCHANGED <<args, walletKey, transaction, calls, replies, sent, balances, execResult>>

Next ==
  \/ SetupLogging
  \/ CheckArgs
  \/ Validate
  \/ Connect
  \/ ConvertAddress
  \/ AllBalances
  \/ CheckWallet
  \/ ReadWallet
  \/ ParseMnemonic
  \/ DeriveWallet
  \/ SendCoins
  \/ MainMatch

Spec == Init /\ [][Next]_vars

(* validate_args on its own: main at the call of validate_args, for a      *)
(* larger set of two-argument inputs                                       *)
InitValidate ==
  /\ pc = "validate"
  /\ args \in ValidateArgs
  /\ walletKey \in {"valid"}
  /\ transaction = Transaction_new
  /\ calls = <<"setup_logging">>
  /\ replies = <<"ok">>
  /\ sent = <<>>
  /\ balances = <<>>
  /\ execResult = NoExec
  /\ report = NoReport
  /\ result = Running
  /\ log = <<Info("Rust Cli Tool has started")>>

NextValidate == Validate

SpecValidate == InitValidate /\ [][NextValidate]_vars

TypeOK ==
  /\ pc \in {"start", "args", "validate", "connect", "address", "balances", "metadata",
             "read", "mnemonic", "wallet", "send", "match", "done"}
  /\ walletKey \in WalletKeys
  /\ result.kind \in {"running", "ok", "err"}
  /\ execResult.kind \in {"none", "ok", "err"}
  /\ Len(sent) <= 1

----------------------------------------------------------------------------
(* Vocabulary of the properties *)

Called(f) == \E i \in 1..Len(calls) : calls[i] = f

Replied(f, r) == \E i \in 1..Len(calls) : calls[i] = f /\ replies[i] = r

PriorSteps == {"connect", "Address::from_str", "all_balances", "metadata",
               "read_to_string", "SeedPhrase::from_str", "with_hrp"}

AllSteps ==
  <<"setup_logging", "validate_args", "connect", "Address::from_str", "all_balances",
    "metadata", "read_to_string", "SeedPhrase::from_str", "with_hrp", "send_coins">>

IsPrefix(a, b) == Len(a) <= Len(b) /\ a = SubSeq(b, 1, Len(a))

ExecStarted == pc \in {"connect", "address", "balances", "metadata", "read",
                       "mnemonic", "wallet", "send", "match"}
               \/ (pc = "done" /\ execResult.kind # "none")

ExecFailedWith(E) == execResult.kind = "err" /\ execResult.err[1] \in E

RequestValid == Len(args) = 2 /\ validate_args(args).ok

(* The step whose failure produces each error of execute_transaction *)
StepOf(e) ==
  CASE e = ErrConnect -> "connect"
    [] e = ErrConvert -> "Address::from_str"
    [] e = ErrBalances -> "all_balances"
    [] e = ErrNoWallet -> "metadata"
    [] e = ErrReadWallet -> "read_to_string"
    [] e = ErrMnemonic -> "SeedPhrase::from_str"
    [] e \in DeriveErrors -> "with_hrp"
    [] e = ErrSend -> "send_coins"

(* Left-to-right scanners for the two patterns, over a digit class D.      *)
(* States: 0 start, 1 leading digits, 2 letters, 3 after '-', 4 digits     *)
(* after the letters or a '-', 9 dead.                                     *)
RECURSIVE ScanCode(_, _, _, _)
ScanCode(s, i, q, D) ==
  IF i > Len(s) THEN q \in {2, 3, 4}
  ELSE LET c == s[i]
           n == CASE q \in {0, 1} /\ c \in D -> 1
                  [] q \in {1, 2} /\ c \in Letters -> 2
                  [] q \in {2, 3} /\ c = "-" -> 3
                  [] q \in {2, 3, 4} /\ c \in D -> 4
                  [] OTHER -> 9
       IN n # 9 /\ ScanCode(s, i + 1, n, D)

(* ^D+[A-Za-z]+-*D*$ *)
CodeShape(s, D) == ScanCode(s, 1, 0, D)

RECURSIVE ScanClaim(_, _, _, _)
ScanClaim(s, i, q, D) ==
  IF i > Len(s) THEN q \in {2, 4}
  ELSE LET c == s[i]
           n == CASE q \in {0, 1} /\ c \in D -> 1
                  [] q \in {1, 2} /\ c \in Letters -> 2
                  [] q \in {2, 4} /\ c = "-" -> 3
                  [] q \in {3, 4} /\ c \in D -> 4
                  [] OTHER -> 9
       IN n # 9 /\ ScanClaim(s, i + 1, n, D)

(* ^D+[A-Za-z]+(-D+)*$ *)
ClaimShape(s, D) == ScanClaim(s, 1, 0, D)

RECURSIVE DigitRun(_, _)
DigitRun(s, D) ==
  IF s # <<>> /\ s[1] \in D THEN 1 + DigitRun(Tail(s), D) ELSE 0

NumericDigit(c) == IF c = U0663 THEN 3 ELSE DigitVal(c)

RECURSIVE NumericValue(_)
NumericValue(s) ==
  IF Len(s) > 1 /\ NumericDigit(s[1]) = 0 THEN NumericValue(Tail(s))
  ELSE [i \in 1..Len(s) |-> NumericDigit(s[i])]

AtMostU32Max(d) ==
  \/ Len(d) < 10
  \/ /\ Len(d) = 10
     /\ \/ d = <<4, 2, 9, 4, 9, 6, 7, 2, 9, 5>>
        \/ \E i \in 1..10 :
             /\ d[i] < <<4, 2, 9, 4, 9, 6, 7, 2, 9, 5>>[i]
             /\ \A j \in 1..(i - 1) : d[j] = <<4, 2, 9, 4, 9, 6, 7, 2, 9, 5>>[j]

AddrCharset == Letters \cup AsciiDigits \cup {"_", "-"}

AddrOk(a) == a # <<>> /\ \A i \in 1..Len(a) : a[i] \in AddrCharset

(* The first argument passes every check validate_args makes on it *)
AmountTokenOk(s) ==
  /\ CodeShape(s, AsciiDigits)
  /\ AtMostU32Max(NumericValue(SubSeq(s, 1, DigitRun(s, AsciiDigits))))

Accepted == pc = "connect"

RejectedWith(e) == pc = "done" /\ result = MainErr(<<e>>)

----------------------------------------------------------------------------
(* Properties *)

(* C1: send_coins is never invoked once an earlier step has failed: when   *)
(* connect, the address conversion, the balance query, the credential      *)
(* check or read, the seed-phrase parsing or the wallet derivation failed, *)
(* or the wallet key is absent, unreadable or malformed, no send_coins     *)
(* call has occurred and a finished run has ended with an error.           *)
C1_NoSendAfterFailure ==
  /\ (\E f \in PriorSteps : Replied(f, "err"))
       => /\ ~Called("send_coins")
          /\ sent = <<>>
          /\ pc = "done" => result.kind = "err"
  /\ walletKey # "valid" => ~Called("send_coins") /\ sent = <<>>
  /\ (pc = "done" /\ walletKey # "valid") => result.kind = "err"

C1_Witness ==
  /\ pc = "done"
  /\ walletKey = "malformed"
  /\ Replied("SeedPhrase::from_str", "err")
  /\ result = MainErr(<<ErrExecution, ErrMnemonic>>)
  /\ Called("connect")

(* C2: a finished run is a success exactly when the arguments were valid,  *)
(* every step of the pipeline completed and the receipt's code is 0; a     *)
(* receipt with a nonzero code makes main return an error.                 *)
C2_SuccessIff ==
  pc = "done" =>
    /\ result.kind = "ok" <=>
         /\ RequestValid
         /\ calls = AllSteps
         /\ execResult.kind = "ok"
         /\ execResult.code = 0
    /\ (execResult.kind = "ok" /\ execResult.code # 0) => result.kind = "err"

C2_Witness ==
  /\ pc = "done"
  /\ execResult.kind = "ok"
  /\ execResult.code # 0
  /\ result.kind = "err"

(* C3 as stated: with a valid request and the wallet key absent, the run   *)
(* fails with the missing-credential error before connect: no connect,     *)
(* all_balances or send_coins call, no connectivity or query error.        *)
C3_Original ==
  (ExecStarted /\ walletKey = "absent") =>
    /\ ~Called("connect") /\ ~Called("all_balances") /\ ~Called("send_coins")
    /\ ~ExecFailedWith({ErrConnect, ErrConvert, ErrBalances})
    /\ pc = "done" => result = MainErr(<<ErrExecution, ErrNoWallet>>)

(* C3 amended: with a valid request and the wallet key absent, the         *)
(* missing-credential error is raised only after connect, the address      *)
(* conversion and the balance query have been performed and succeeded; the *)
(* key file is never read and send_coins is never called; the run ends     *)
(* with the connectivity, conversion or query error if one of those steps  *)
(* fails first, and with the missing-credential error otherwise.           *)
C3_Amended ==
  (ExecStarted /\ walletKey = "absent") =>
    /\ ~Called("send_coins") /\ ~Called("read_to_string")
    /\ ExecFailedWith({ErrNoWallet}) =>
         calls = SubSeq(AllSteps, 1, 6)
    /\ Called("metadata") => ExecFailedWith({ErrNoWallet})
    /\ pc = "done" =>
         result \in {MainErr(<<ErrExecution, e>>) :
                       e \in {ErrConnect, ErrConvert, ErrBalances, ErrNoWallet}}

C3_Witness ==
  /\ pc = "done"
  /\ walletKey = "absent"
  /\ result = MainErr(<<ErrExecution, ErrNoWallet>>)
  /\ Called("connect") /\ Called("all_balances")

(* C4 as stated: with a charset-valid address, the first argument is       *)
(* accepted exactly when it matches ^\d+[A-Za-z]+(-\d+)*$; the amount is   *)
(* the value of the leading digit run and the token the remainder; every   *)
(* other first argument is rejected with the format error.                 *)
C4_Original ==
  (pc # "validate" /\ AddrOk(args[2])) =>
    LET s == args[1]
        k == DigitRun(s, UnicodeDigits)
    IN IF ClaimShape(s, UnicodeDigits)
       THEN /\ Accepted
            /\ transaction.amount = NumericValue(SubSeq(s, 1, k))
            /\ transaction.token = SubSeq(s, k + 1, Len(s))
       ELSE RejectedWith(ErrFormat)

(* C4 amended: with a charset-valid address, the first argument is         *)
(* accepted exactly when it matches ^[0-9]+[A-Za-z]+-*[0-9]*$ and the      *)
(* value of its leading digit run is at most 4294967295; the amount is     *)
(* that value and the token the whole remainder; it is rejected with the   *)
(* format error exactly when it does not match ^\d+[A-Za-z]+-*\d*$ (\d any *)
(* decimal digit); a first argument matching that pattern whose digit run  *)
(* overflows u32 or is not ASCII is rejected with the amount error, and    *)
(* one whose token ends in non-ASCII digits with the token error.          *)
C4_Amended ==
  (pc # "validate" /\ AddrOk(args[2])) =>
    LET s == args[1]
        k == DigitRun(s, UnicodeDigits)
        digits == SubSeq(s, 1, k)
        asciiAmount == \A i \in 1..k : s[i] \in AsciiDigits
        amountOk == asciiAmount /\ AtMostU32Max(NumericValue(digits))
    IN /\ Accepted <=> AmountTokenOk(s)
       /\ Accepted =>
            /\ transaction.amount = NumericValue(digits)
            /\ transaction.token = SubSeq(s, k + 1, Len(s))
            /\ transaction.addr = args[2]
       /\ RejectedWith(ErrFormat) <=> ~CodeShape(s, UnicodeDigits)
       /\ RejectedWith(ErrAmount) <=> (CodeShape(s, UnicodeDigits) /\ ~amountOk)
       /\ RejectedWith(ErrToken) <=>
            (CodeShape(s, UnicodeDigits) /\ amountOk /\ ~CodeShape(s, AsciiDigits))

C4_Witness ==
  /\ Accepted
  /\ AddrOk(args[2])
  /\ ~ClaimShape(args[1], UnicodeDigits)
  /\ transaction.token[Len(transaction.token)] = "-"

(* C5 as stated: an address outside [A-Za-z0-9_-]+ is rejected with the    *)
(* address error whether the first argument is valid or not.               *)
C5_Original ==
  (pc # "validate" /\ ~AddrOk(args[2])) => RejectedWith(ErrAddress)

(* C5 amended: an address outside [A-Za-z0-9_-]+ (the empty string         *)
(* included) is always rejected; the error is the address error exactly    *)
(* when the first argument passes its own checks, and otherwise the error  *)
(* of the first argument (format, amount or token).                        *)
C5_Amended ==
  (pc # "validate" /\ ~AddrOk(args[2])) =>
    /\ pc = "done" /\ result.kind = "err"
    /\ RejectedWith(ErrAddress) <=> AmountTokenOk(args[1])
    /\ ~AmountTokenOk(args[1]) =>
         \E e \in {ErrFormat, ErrAmount, ErrToken} : RejectedWith(e)

C5_Witness ==
  /\ RejectedWith(ErrAddress)
  /\ args[2] = <<>>
  /\ AmountTokenOk(args[1])

(* C6: every Transaction that reaches execute_transaction, and every coin  *)
(* passed to send_coins, has an amount strictly greater than zero.         *)
C6_PositiveAmount ==
  /\ ExecStarted => transaction.amount # <<0>>
  /\ \A i \in 1..Len(sent) : sent[i].amount[1].amount # <<"0">>

(* C7: when the argument count is not two or validate_args fails, the run  *)
(* ends with that error and makes no connect, all_balances or send_coins   *)
(* call and no wallet-file access; a wrong argument count is reported      *)
(* before validate_args is evaluated.                                      *)
C7_NoNetworkOnBadInput ==
  ~RequestValid =>
    /\ \A f \in {"connect", "Address::from_str", "all_balances", "metadata",
                 "read_to_string", "SeedPhrase::from_str", "with_hrp", "send_coins"} :
         ~Called(f)
    /\ sent = <<>> /\ execResult = NoExec /\ report = NoReport
    /\ Len(args) # 2 => ~Called("validate_args")
    /\ (pc = "done" /\ log # <<>>) =>
         result = MainErr(IF Len(args) # 2 THEN <<ErrUsage>> ELSE validate_args(args).err)

C7_Witness ==
  /\ pc = "done"
  /\ Len(args) = 2
  /\ result = MainErr(<<ErrAddress>>)
  /\ calls = <<"setup_logging", "validate_args">>

(* C8: connect and send_coins are each called at most once and no step is  *)
(* attempted after a failure: the calls made are always a prefix of the    *)
(* one fixed sequence of steps, a failed step is the last call made, and   *)
(* send_coins is called only after connect, the balance query, the         *)
(* credential read and the wallet derivation, in that order.               *)
C8_SingleAttemptInOrder ==
  /\ IsPrefix(calls, AllSteps)
  /\ Len(sent) <= 1
  /\ Len(replies) = Len(calls)
  /\ \A i \in 1..(Len(calls) - 1) : replies[i] = "ok"
  /\ Replied(calls[Len(calls)], "err") => pc \in {"match", "done"}
  /\ execResult.kind = "err" =>
       /\ calls[Len(calls)] = StepOf(execResult.err[1])
       /\ replies[Len(calls)] = "err"
  /\ Called("send_coins") => calls = AllSteps /\ walletKey = "valid"

C8_Witness ==
  /\ pc = "done"
  /\ calls = AllSteps
  /\ Len(sent) = 1
  /\ execResult.kind = "ok"

(* C9: the report {code, height, tx_hash} is emitted exactly in the runs   *)
(* where send_coins returned a receipt, whatever its code, and carries     *)
(* that receipt; a run ending with any other error emits no report.        *)
C9_ReportIffReceipt ==
  /\ report.emitted =>
       /\ execResult.kind = "ok"
       /\ report.code = execResult.code
       /\ report.height = execResult.height
       /\ report.txhash = execResult.txhash
  /\ pc = "done" =>
       /\ report.emitted <=> execResult.kind = "ok"
       /\ execResult.kind # "ok" =>
            /\ result.kind = "err"
            /\ \A i \in 1..Len(log) :
                 log[i][2] \notin {"Transaction completed successfully: {}",
                                  "Transaction finalized with errors: {}"}

C9_Witness ==
  /\ pc = "done"
  /\ report.emitted
  /\ report.code # 0
  /\ result.kind = "err"

(* C10: the balance query is fatal: when the address conversion or         *)
(* all_balances fails, connect has been performed, the run ends in error   *)
(* at that point, and the wallet file is not read, no wallet is derived    *)
(* and send_coins is not called; once the query has succeeded, whether     *)
(* send_coins is called depends only on the wallet key and the wallet      *)
(* derivation, not on the balances returned.                               *)
C10_BalanceQueryFatal ==
  /\ (Replied("Address::from_str", "err") \/ Replied("all_balances", "err")) =>
       /\ Replied("connect", "ok")
       /\ \A f \in {"metadata", "read_to_string", "SeedPhrase::from_str",
                    "with_hrp", "send_coins"} : ~Called(f)
       /\ sent = <<>>
       /\ pc \in {"match", "done"}
       /\ ExecFailedWith({ErrConvert, ErrBalances})
       /\ pc = "done" => result = MainErr(<<ErrExecution>> \o execResult.err)
  /\ (pc \in {"match", "done"} /\ Replied("all_balances", "ok")) =>
       (Called("send_coins") <=>
          (walletKey = "valid" /\ ~Replied("with_hrp", "err")))

C10_Witness ==
  /\ pc = "done"
  /\ Replied("all_balances", "err")
  /\ execResult = ExecErr(ErrBalances)
  /\ Called("connect")
  /\ result.kind = "err"

====
